---------------------------- MODULE Spec2Model ----------------------------
(*
  A model of the UsbKeypad firmware: the NeoTrellis 8x8 display
  (src/src/display.rs), the breathing-lights engine (src/src/lights/mod.rs)
  and the animations and tasks of src/src/main.rs.

  One set of variables serves several specifications, one per component;
  each specification keeps the variables of the other components at their
  initial value.
*)
EXTENDS Integers, Sequences, FiniteSets, TLC

VARIABLES
    call,          \* the last completed operation: its name, input and result
    framebuffer,   \* NeoTrellisDisplay.framebuffer, a function 0..63 -> colour
    ndraws,        \* number of draw calls made so far, where they are bounded
    neopixels,     \* per device, the 16 pixel values written to it (not yet shown)
    shown,         \* per device, the 16 pixel values its last show committed
    buslog,        \* the bus operations the last call completed, in order
    nflush,        \* number of flush calls made so far, where they are bounded
    STEP,          \* BreathingLights' const generic STEP: u8
    direction,     \* BreathingLights.direction
    value,         \* BreathingLights.value
    lit,           \* the intensity last plotted on the pixels by show_next
    wave,          \* the values calculate_next_state has produced, in order
    cycles,        \* how often the lights came back to (0, Increasing)
    text,          \* the text run_display scrolls, a sequence of characters
    phase,         \* where run_display is: pending, fade, scroll, rearm, halt
    next_call,     \* the next call of the frame being rendered
    loop_i,        \* the loop variable i of the animation in progress
    frame,         \* the calls made so far for the frame being rendered
    offsets,       \* the x offsets of the frames scroll_text has rendered
    passes,        \* how often run_display has started (bounded)
    first_frames,  \* per scroll_text pass, the framebuffer of its first frame
    events,        \* per device, the key events waiting in the keypad's FIFO
    held,          \* the keys held down, as <<device, key>>
    handled,       \* the KeyEvents process_events has given to event_handler
    keylog,        \* the keypad reads of the last process_events, in order
    keycode_pingpong,  \* hid_task's local keycode_pingpong
    sent,          \* the report the host received last, or NoReport
    usb_pc,        \* where usb_task is: idle, lock, locked, rearm
    hid_pc,        \* where hid_task is: idle, build, lock, locked, unlock
    usb_queued,    \* usb_task instances spawned and not yet started
    usb_timer,     \* usb_task instances waiting in the timer queue
    hid_queued,    \* hid_task instances spawned and not yet started
    pushes,        \* push_input calls of the current hid_task run
    hid_expired    \* usb_task's timer expired during the current hid_task run

displayVars == <<framebuffer, ndraws>>
busVars == <<neopixels, shown, buslog, nflush>>
lightsVars == <<STEP, direction, value, lit, wave, cycles>>
taskVars == <<text, phase, next_call, loop_i, frame, offsets, passes, first_frames>>
keyVars == <<events, held, handled, keylog>>
usbVars == <<keycode_pingpong, sent>>
schedVars ==
    <<usb_pc, hid_pc, usb_queued, usb_timer, hid_queued, pushes, hid_expired>>
vars == <<call, displayVars, busVars, lightsVars, taskVars, keyVars, usbVars,
          schedVars>>

\* the variables other than those of the display
offDisplay == <<lightsVars, taskVars, keyVars, usbVars, schedVars>>
\* the variables other than those of the breathing lights
offLights == <<displayVars, busVars, taskVars, keyVars, usbVars, schedVars>>
\* the variables other than those of the display and its task
offTask == <<lightsVars, keyVars, usbVars, schedVars>>

(***************************************************************************)
(* Bounds of the model.                                                    *)
(***************************************************************************)
\* the number of draw_iter calls in one behaviour
MaxDraws == 1
\* the number of draw calls and of flush calls in one behaviour of SpecFlush
MaxBatch == 2
MaxFlushes == 1
\* the number of full breathing cycles in one behaviour
MaxCycles == 2
\* the number of times run_display runs in one behaviour
MaxPasses == 2
\* the number of key edges in one behaviour
MaxEdges == 3

(***************************************************************************)
(* Rust integer arithmetic.                                                *)
(***************************************************************************)
Abs(a) == IF a < 0 THEN 0 - a ELSE a

\* i32 `/`: truncates toward zero
RustDiv(a, b) ==
    IF (a < 0) = (b < 0) THEN Abs(a) \div Abs(b) ELSE 0 - (Abs(a) \div Abs(b))

\* i32 `%`: the remainder has the sign of the dividend
RustRem(a, b) == a - b * RustDiv(a, b)

\* `as u8`: the low 8 bits.  (`as u32` and `as usize` are applied only to
\* values of 0..67 here and leave them as they are.)
AsU8(a) == a % 256

(***************************************************************************)
(* Colours: pixelcolor::Rgb888 as <<r, g, b>>.                             *)
(***************************************************************************)
BLACK == <<0, 0, 0>>
WHITE == <<255, 255, 255>>
RED == <<255, 0, 0>>
Palette == {BLACK, WHITE, RED}

Ok(v) == [tag |-> "Ok", val |-> v]
Err(e) == [tag |-> "Err", val |-> e]
\* the record of the construction, before any operation is called
NewCall == [op |-> "new", ret |-> Ok("unit")]
\* a call that does not return: unwrap or panic! on an error
Panic == [tag |-> "Panic", val |-> "panic"]

(***************************************************************************)
(* The coordinate mapper.                                                  *)
(***************************************************************************)
NumPixels == 64
Side == 8

\* the points handed to the mapper and to draw_iter: the surface and a ring
\* of out-of-range points around it, negative coordinates included
Coords == (0 - 1)..Side
Points == Coords \X Coords

\* a plausible slip: the stride of a device's slice is taken to be 4
index_for_device_and_pixel_stride4(device_idx, pix_idx) ==
    device_idx * 4 + pix_idx

index_for_device_and_pixel(device_idx, pix_idx) ==
    device_idx * 16 + pix_idx

\* `if let Ok((0..=7, 0..=7)) = point.try_into()`: the conversion to
\* (u32, u32) fails on a negative coordinate, the pattern on one above 7
PointInRange(point) ==
    /\ point[1] >= 0 /\ point[2] >= 0
    /\ point[1] \in 0..7 /\ point[2] \in 0..7

\* a plausible slip: the naive row-major tiling, devices not mirrored
index_for_coordinate_unmirrored(point) ==
    IF PointInRange(point)
    THEN LET dev_index == RustDiv(point[1], 4) + RustDiv(point[2], 4) * 2
             pix_index == RustRem(point[1], 4) + RustRem(point[2], 4) * 4
         IN Ok(index_for_device_and_pixel(dev_index, pix_index))
    ELSE Err("OutOfBoundsCoordinate")

index_for_coordinate(point) ==
    IF PointInRange(point)
    THEN LET dev_index == 1 - RustDiv(point[1], 4) + (1 - RustDiv(point[2], 4)) * 2
             pix_index == RustRem(point[1], 4) + RustRem(point[2], 4) * 4
         IN Ok(index_for_device_and_pixel(dev_index, pix_index))
    ELSE Err("OutOfBoundsCoordinate")

(***************************************************************************)
(* Drawing into the framebuffer.                                           *)
(***************************************************************************)
\* NeoTrellisDisplay::new: every entry is Rgb888::default(), black
new_framebuffer == [i \in 0..(NumPixels - 1) |-> BLACK]

\* a plausible slip: an out-of-range point is clamped to the nearest edge
draw_pixel_clamped(fb, pixel) ==
    LET clamp(v) == IF v < 0 THEN 0 ELSE IF v > 7 THEN 7 ELSE v
        r == index_for_coordinate(<<clamp(pixel[1][1]), clamp(pixel[1][2])>>)
    IN [fb EXCEPT ![r.val] = pixel[2]]

\* one iteration of draw_iter's loop
draw_pixel(fb, pixel) ==
    LET r == index_for_coordinate(pixel[1])
    IN IF r.tag = "Ok" THEN [fb EXCEPT ![r.val] = pixel[2]] ELSE fb

\* draw_iter's loop over pixels[lo..hi], in order.  The range is split in
\* two so that the evaluation stays shallow; the test on first[0] is always
\* true and only makes the first half be evaluated before the second.
RECURSIVE draw_loop(_, _, _, _)
draw_loop(fb, pixels, lo, hi) ==
    IF lo > hi THEN fb
    ELSE IF lo = hi THEN draw_pixel(fb, pixels[lo])
    ELSE LET mid == (lo + hi) \div 2
             first == draw_loop(fb, pixels, lo, mid)
         IN IF first[0] = first[0]
            THEN draw_loop(first, pixels, mid + 1, hi)
            ELSE first

\* the pixel lists handed to one draw_iter call: a single pixel of any
\* colour, or a run of two white pixels
RunLengths == 1..2
RunColors(n) == IF n = 1 THEN Palette ELSE {WHITE}

\* a horizontal run of n pixels of one colour starting at point
Run(point, n, color) ==
    [k \in 1..n |-> <<<<point[1] + k - 1, point[2]>>, color>>]

\* the points of the bounding box, row by row, as fill_solid visits them
BoxPixels(color) ==
    [k \in 1..NumPixels |-> <<<<(k - 1) % Side, (k - 1) \div Side>>, color>>]

(***************************************************************************)
(* Flushing the framebuffer to the four devices.                           *)
(*                                                                         *)
(* The bus may fail: okOps is the number of bus operations that still      *)
(* succeed, the next one failing.  A call that needs no more than okOps    *)
(* operations succeeds.                                                    *)
(***************************************************************************)
NumDevices == 4
PixelsPerDevice == 16
\* the bus operations of one plot_pixel_matrix, and of one flush
OpsPerDevice == PixelsPerDevice + 1
OpsPerFlush == NumDevices * OpsPerDevice

SetPixelRgb(dev, i, color) ==
    <<"set_pixel_rgb", dev, i, color[1], color[2], color[3]>>
Show(dev) == <<"show", dev>>

\* a plausible slip: the result of set_pixel_rgb is dropped instead of
\* propagated with `?`, so show is issued after a failed write
plot_pixel_matrix_unchecked(dev, staged, committed, pixels, okOps) ==
    LET n == IF okOps < PixelsPerDevice THEN okOps ELSE PixelsPerDevice
        written == [i \in 0..(PixelsPerDevice - 1) |->
                        IF i < n THEN pixels[i] ELSE staged[i]]
        sets == [k \in 1..n |-> SetPixelRgb(dev, k - 1, pixels[k - 1])]
    IN [ret |-> Ok("unit"), staged |-> written, shown |-> written,
        ops |-> Append(sets, Show(dev))]

\* plot_pixel_matrix on device dev, whose written and shown pixel values
\* are staged and committed: set_pixel_rgb for the pixels in order, each
\* propagating its error, then show
plot_pixel_matrix(dev, staged, committed, pixels, okOps) ==
    LET n == IF okOps < PixelsPerDevice THEN okOps ELSE PixelsPerDevice
        written == [i \in 0..(PixelsPerDevice - 1) |->
                        IF i < n THEN pixels[i] ELSE staged[i]]
        sets == [k \in 1..n |-> SetPixelRgb(dev, k - 1, pixels[k - 1])]
    IN IF okOps >= OpsPerDevice
       THEN [ret |-> Ok("unit"), staged |-> written, shown |-> written,
             ops |-> Append(sets, Show(dev))]
       ELSE [ret |-> Err("Device"), staged |-> written, shown |-> committed,
             ops |-> sets]

\* flush's loop from device i on
RECURSIVE flush_loop(_, _, _, _)
flush_loop(fb, hw, okOps, i) ==
    IF i >= NumDevices THEN [ret |-> Ok("unit"), hw |-> hw, ops |-> << >>]
    ELSE LET index == i * 16
             slice == [k \in 0..(PixelsPerDevice - 1) |-> fb[index + k]]
             r == plot_pixel_matrix(i, hw.staged[i], hw.shown[i], slice, okOps)
             hw1 == [staged |-> [hw.staged EXCEPT ![i] = r.staged],
                     shown |-> [hw.shown EXCEPT ![i] = r.shown]]
         IN IF r.ret.tag = "Err"
            THEN [ret |-> r.ret, hw |-> hw1, ops |-> r.ops]
            ELSE LET rest == flush_loop(fb, hw1, okOps - Len(r.ops), i + 1)
                 IN [ret |-> rest.ret, hw |-> rest.hw, ops |-> r.ops \o rest.ops]

\* a plausible slip: every draw call flushes at once
draw_iter_flushing(fb, hw, pixels) ==
    LET drawn == draw_loop(fb, pixels, 1, Len(pixels))
        r == flush_loop(drawn, hw, OpsPerFlush, 0)
    IN [fb |-> drawn, ret |-> r.ret, hw |-> r.hw, ops |-> r.ops]

\* DrawTarget::draw_iter: the new framebuffer, the value returned, and the
\* bus operations issued with the state hw they leave the devices in
draw_iter(fb, hw, pixels) ==
    [fb |-> draw_loop(fb, pixels, 1, Len(pixels)), ret |-> Ok("unit"),
     hw |-> hw, ops |-> << >>]

\* NeoTrellisDisplay::flush
flush(fb, hw, okOps) ==
    LET r == flush_loop(fb, hw, okOps, 0)
    IN [fb |-> fb, ret |-> r.ret, hw |-> r.hw, ops |-> r.ops]

(***************************************************************************)
(* The breathing lights (src/src/lights/mod.rs).                           *)
(***************************************************************************)
\* a plausible slip: plain u8 addition, which wraps in a release build
wrapping_add(a, b) == (a + b) % 256

\* u8::saturating_add and u8::saturating_sub
saturating_add(a, b) == IF a + b > 255 THEN 255 ELSE a + b
saturating_sub(a, b) == IF a - b < 0 THEN 0 ELSE a - b

\* a plausible slip: the direction turns one step late, on the value
\* already being at the extreme
calculate_next_state_late(dir, val, step) ==
    IF dir = "Increasing"
    THEN [value |-> saturating_add(val, step),
          direction |-> IF val = 255 THEN "Decreasing" ELSE dir]
    ELSE [value |-> saturating_sub(val, step),
          direction |-> IF val = 0 THEN "Increasing" ELSE dir]

\* BreathingLights::calculate_next_state: the new value and direction
calculate_next_state(dir, val, step) ==
    IF dir = "Increasing"
    THEN LET v == saturating_add(val, step)
         IN [value |-> v, direction |-> IF v = 255 THEN "Decreasing" ELSE dir]
    ELSE LET v == saturating_sub(val, step)
         IN [value |-> v, direction |-> IF v = 0 THEN "Increasing" ELSE dir]

\* BreathingLights::new and init: value 0, increasing, every pixel off
NewLights(step) ==
    /\ STEP = step
    /\ direction = "Increasing"
    /\ value = 0
    /\ lit = 0
    /\ wave = << >>
    /\ cycles = 0

\* the state of the four devices: what was written, what is shown
Hardware == [staged |-> neopixels, shown |-> shown]

\* the devices after power-up: every pixel off
dark == [d \in 0..3 |-> [i \in 0..15 |-> BLACK]]

NewDisplay ==
    /\ framebuffer = new_framebuffer
    /\ ndraws = 0
    /\ neopixels = dark
    /\ shown = dark
    /\ buslog = << >>
    /\ nflush = 0

\* the effect of a display operation with result r
\* run_display as init leaves it: spawned, not yet started, to scroll t
NewTask(t) ==
    /\ text = t
    /\ phase = "pending"
    /\ next_call = "clear"
    /\ loop_i = 0
    /\ frame = << >>
    /\ offsets = << >>
    /\ passes = 0
    /\ first_frames = << >>

NoReport == [modifier |-> 0, leds |-> 0, keycodes |-> << >>]

\* the keypads and the USB side as init leaves them: no event waiting, no
\* key held, nothing reported, keycode_pingpong: true
NewKeypad ==
    /\ events = [d \in 0..3 |-> << >>]
    /\ held = {}
    /\ handled = << >>
    /\ keylog = << >>
    /\ keycode_pingpong = TRUE
    /\ sent = NoReport

\* the tasks as init leaves them: usb_task spawned (run_display: NewTask)
NewSched ==
    /\ usb_pc = "idle"
    /\ hid_pc = "idle"
    /\ usb_queued = 1
    /\ usb_timer = 0
    /\ hid_queued = 0
    /\ pushes = 0
    /\ hid_expired = FALSE

Effect(r) ==
    /\ framebuffer' = r.fb
    /\ neopixels' = r.hw.staged
    /\ shown' = r.hw.shown
    /\ buslog' = r.ops

(***************************************************************************)
(* SpecDraw: the mapper and the draw operations on the framebuffer.        *)
(***************************************************************************)
InitDraw ==
    /\ call = NewCall
    /\ NewDisplay
    /\ NewKeypad
    /\ NewSched
    /\ NewTask(<< >>)
    /\ NewLights(1)

DrawIter ==
    /\ ndraws < MaxDraws
    /\ \E p \in Points, n \in RunLengths : \E c \in RunColors(n) :
        LET pixels == Run(p, n, c)
            r == draw_iter(framebuffer, Hardware, pixels)
        IN /\ Effect(r)
           /\ call' = [op |-> "draw_iter", pixels |-> pixels, ret |-> r.ret]
    /\ ndraws' = ndraws + 1
    /\ UNCHANGED <<nflush, offDisplay>>

\* DrawTarget::clear: fill_solid over the bounding box, through draw_iter.
\* As in the animations of main.rs, a frame starts with clear and the draws
\* follow it.
Clear ==
    /\ ndraws = 0
    /\ \E c \in Palette :
        LET r == draw_iter(framebuffer, Hardware, BoxPixels(c))
        IN /\ Effect(r)
           /\ call' = [op |-> "clear", color |-> c, ret |-> r.ret]
    /\ UNCHANGED <<ndraws, nflush, offDisplay>>

NextDraw == DrawIter \/ Clear

SpecDraw == InitDraw /\ [][NextDraw]_vars

(***************************************************************************)
(* SpecMap: the mapper queried directly, on every point of Points.         *)
(***************************************************************************)
InitMap ==
    /\ call = NewCall
    /\ NewDisplay
    /\ NewKeypad
    /\ NewSched
    /\ NewTask(<< >>)
    /\ NewLights(1)

IndexForCoordinate ==
    \E p \in Points :
        /\ call' = [op |-> "index_for_coordinate", point |-> p,
                    ret |-> index_for_coordinate(p)]
        /\ UNCHANGED <<displayVars, busVars, offDisplay>>

NextMap == IndexForCoordinate

SpecMap == InitMap /\ [][NextMap]_vars

(***************************************************************************)
(* The tile arrangement as the specification states it (section 4.1).      *)
(***************************************************************************)
Surface == (0..7) \X (0..7)
PhysicalDevice(p) == (1 - (p[1] \div 4)) + (1 - (p[2] \div 4)) * 2
PhysicalPixel(p) == (p[1] % 4) + (p[2] % 4) * 4
PhysicalIndex(p) == 16 * PhysicalDevice(p) + PhysicalPixel(p)

(***************************************************************************)
(* C1.  For every point (x, y) of the 8x8 surface index_for_coordinate     *)
(* returns 16*d + p with d = (1 - x/4) + (1 - y/4)*2 and                   *)
(* p = (x mod 4) + (y mod 4)*4; the 64 results are pairwise distinct and   *)
(* cover the framebuffer indices 0..63, every device 0..3 and pixel 0..15  *)
(* pair exactly once.                                                      *)
(***************************************************************************)
C1_MapperBijection ==
    /\ (call.op = "index_for_coordinate" /\ call.point \in Surface) =>
            /\ call.ret = Ok(PhysicalIndex(call.point))
            /\ PhysicalDevice(call.point) \in 0..3
            /\ PhysicalPixel(call.point) \in 0..15
    /\ \A p, q \in Surface :
            p # q => index_for_coordinate(p) # index_for_coordinate(q)
    /\ {index_for_coordinate(p).val : p \in Surface} = 0..(NumPixels - 1)
    /\ \A d \in 0..3, k \in 0..15 :
            Cardinality({p \in Surface :
                index_for_coordinate(p) = Ok(index_for_device_and_pixel(d, k))}) = 1

C1_Witness ==
    /\ call.op = "index_for_coordinate"
    /\ call.point = <<0, 0>>
    /\ call.ret = Ok(48)

(***************************************************************************)
(* C2.  Round-trip drawing: from any framebuffer state, drawing the single *)
(* pixel (p, c) with p on the surface through draw_iter leaves the         *)
(* framebuffer entry at p's physical index, device*16 + pixel, equal to c. *)
(***************************************************************************)
C2_RoundTrip ==
    (/\ call.op = "draw_iter"
     /\ Len(call.pixels) = 1
     /\ call.pixels[1][1] \in Surface) =>
        /\ framebuffer[PhysicalIndex(call.pixels[1][1])] = call.pixels[1][2]
        /\ call.ret = Ok("unit")

C2_Witness ==
    /\ call.op = "draw_iter"
    /\ call.pixels = <<<<<<5, 2>>, RED>>>>
    /\ framebuffer[PhysicalIndex(<<5, 2>>)] = RED
    /\ \E i \in 0..(NumPixels - 1) : framebuffer[i] = WHITE

(***************************************************************************)
(* C3.  Clipping: for a point with x or y outside 0..7, negative           *)
(* coordinates included, index_for_coordinate returns the error            *)
(* OutOfBoundsCoordinate; a draw_iter call holding such a point returns Ok *)
(* and writes no framebuffer entry for it: the entries of the in-range     *)
(* pixels of the same call are written, all others stay as they were.      *)
(***************************************************************************)
OutOfRange(pixels) == {k \in 1..Len(pixels) : pixels[k][1] \notin Surface}
InRange(pixels) == {k \in 1..Len(pixels) : pixels[k][1] \in Surface}

C3_Clipping ==
    [][(ndraws' = ndraws + 1 /\ OutOfRange(call'.pixels) # {}) =>
        /\ \A k \in OutOfRange(call'.pixels) :
                index_for_coordinate(call'.pixels[k][1]) = Err("OutOfBoundsCoordinate")
        /\ call'.ret = Ok("unit")
        /\ \A k \in InRange(call'.pixels) :
                framebuffer'[PhysicalIndex(call'.pixels[k][1])] = call'.pixels[k][2]
        /\ \A i \in 0..(NumPixels - 1) :
                (\A k \in InRange(call'.pixels) :
                        PhysicalIndex(call'.pixels[k][1]) # i)
                    => framebuffer'[i] = framebuffer[i]
      ]_vars

C3_Witness ==
    /\ call.op = "draw_iter"
    /\ call.pixels = Run(<<0 - 1, 3>>, 2, WHITE)
    /\ call.ret = Ok("unit")
    /\ framebuffer[PhysicalIndex(<<0, 3>>)] = WHITE
    /\ \A i \in 0..(NumPixels - 1) :
            i # PhysicalIndex(<<0, 3>>) => framebuffer[i] = RED

(***************************************************************************)
(* SpecLights: the breathing lights, for every STEP of 1..255.             *)
(***************************************************************************)
Steps == 1..255

InitLights ==
    /\ call = NewCall
    /\ NewDisplay
    /\ NewKeypad
    /\ NewSched
    /\ NewTask(<< >>)
    /\ \E step \in Steps : NewLights(step)

\* the part of show_next before the pixels are plotted
NextState ==
    LET n == calculate_next_state(direction, value, STEP)
    IN /\ value' = n.value
       /\ direction' = n.direction
       /\ wave' = Append(wave, n.value)
       /\ cycles' = IF n.value = 0 /\ n.direction = "Increasing"
                    THEN cycles + 1 ELSE cycles

Running == call.ret # Panic

\* BreathingLights::show_next, every plot_pixel_matrix succeeding
ShowNext ==
    /\ Running
    /\ cycles < MaxCycles
    /\ NextState
    /\ lit' = value'
    /\ call' = [op |-> "show_next", ret |-> Ok("unit")]
    /\ UNCHANGED <<STEP, offLights>>

\* BreathingLights::show_next, a plot_pixel_matrix failing: unwrap panics
ShowNextPanics ==
    /\ Running
    /\ cycles < MaxCycles
    /\ NextState
    /\ call' = [op |-> "show_next", ret |-> Panic]
    /\ UNCHANGED <<STEP, lit, offLights>>

NextLights == ShowNext \/ ShowNextPanics

SpecLights == InitLights /\ [][NextLights]_vars

(***************************************************************************)
(* C5.  Breathing bounds: from value 0, Increasing, for every STEP of      *)
(* 1..255, every calculate_next_state step leaves the value in 0..255      *)
(* without wrap-around (it never falls while increasing nor rises while    *)
(* decreasing); the direction turns from Increasing to Decreasing exactly  *)
(* on the step whose result is 255 and from Decreasing to Increasing       *)
(* exactly on the step whose result is 0, and at no other value.           *)
(***************************************************************************)
C5_BreathingBounds ==
    [][(Len(wave') = Len(wave) + 1) =>
        /\ value' \in 0..255
        /\ direction = "Increasing" =>
                /\ value' >= value
                /\ value' = 255 \/ value' = value + STEP
                /\ (direction' = "Decreasing") <=> (value' = 255)
        /\ direction = "Decreasing" =>
                /\ value' <= value
                /\ value' = 0 \/ value' = value - STEP
                /\ (direction' = "Increasing") <=> (value' = 0)
      ]_vars

\* the value saturated at 255 from 254 (STEP 4) and the direction turned
C5_Witness ==
    /\ STEP = 4
    /\ Len(wave) = 64
    /\ wave[63] = 252
    /\ value = 255
    /\ direction = "Decreasing"

(***************************************************************************)
(* C6.  Breathing cycle: for every STEP of 1..255, from (0, Increasing)    *)
(* the lights are back at (0, Increasing) for the first time after exactly *)
(* ceil(255/STEP)*2 calls of calculate_next_state.  The values of a cycle  *)
(* rise strictly to 255 and then fall strictly to 0, and the falling half  *)
(* is the complement of the rising half: the k-th value going down is 255  *)
(* minus the k-th value going up.  The cycle reads the same backwards (a   *)
(* palindrome) exactly when STEP divides 255.                              *)
(***************************************************************************)
CeilDiv(a, b) == (a + b - 1) \div b
HalfCycle == CeilDiv(255, STEP)

\* the first cycle has just ended
CycleDone == Len(wave) = 2 * HalfCycle

\* the values of the cycle, the 0 it started from included, read the same
\* in both directions
Palindrome ==
    \A k \in 1..(2 * HalfCycle - 1) : wave[k] = wave[2 * HalfCycle - k]

C6_BreathingCycle ==
    /\ (value = 0 /\ direction = "Increasing") <=> (Len(wave) % (2 * HalfCycle) = 0)
    /\ CycleDone =>
        /\ wave[HalfCycle] = 255
        /\ wave[2 * HalfCycle] = 0
        /\ \A k \in 1..(HalfCycle - 1) : wave[k] < wave[k + 1]
        /\ \A k \in HalfCycle..(2 * HalfCycle - 1) : wave[k] > wave[k + 1]
        /\ \A k \in 1..HalfCycle : wave[HalfCycle + k] = 255 - wave[k]
        /\ Palindrome <=> (255 % STEP = 0)

\* STEP 2 does not divide 255: the way up ends 252, 254, 255 and the way
\* down starts 253, 251
C6_Witness ==
    /\ STEP = 2
    /\ CycleDone
    /\ value = 0 /\ direction = "Increasing"
    /\ wave[127] = 254 /\ wave[128] = 255 /\ wave[129] = 253

\* the claim as stated: the cycle takes ceil(255/STEP)*2 calls and its
\* falling half mirrors its rising half
C6_MirroredCycle ==
    /\ (value = 0 /\ direction = "Increasing") <=> (Len(wave) % (2 * HalfCycle) = 0)
    /\ CycleDone => Palindrome

(***************************************************************************)
(* The cross-fade of apply_breathing_effect (src/src/main.rs).             *)
(***************************************************************************)
NUM_FRAMES == 100

\* a plausible slip: the product is taken in 8 bits, without `as u32`
apply_alpha_narrow(val, alpha) ==
    AsU8(IF alpha < 50
         THEN AsU8(val * alpha) \div 50
         ELSE AsU8(val * (100 - alpha)) \div 50)

\* the closure apply_alpha: u32 arithmetic, the result cast to u8
apply_alpha(val, alpha) ==
    AsU8(IF alpha < 50
         THEN (val * alpha) \div 50
         ELSE (val * (100 - alpha)) \div 50)

\* the closure convert_color
convert_color(color, alpha) ==
    <<apply_alpha(color[1], alpha),
      apply_alpha(color[2], alpha),
      apply_alpha(color[3], alpha)>>

(***************************************************************************)
(* SpecFade: one colour channel of one bitmap pixel through the frames     *)
(* 0..99 of apply_breathing_effect, for every channel value of 0..255.     *)
(***************************************************************************)
Channels == 0..255

InitFade ==
    /\ call = NewCall
    /\ NewDisplay
    /\ NewKeypad
    /\ NewSched
    /\ NewTask(<< >>)
    /\ NewLights(1)

\* frame 0 of a pass, for a channel value of the bitmap
FirstFrame ==
    /\ call.op = "new"
    /\ \E v \in Channels :
        call' = [op |-> "apply_alpha", value |-> v, alpha |-> 0,
                 ret |-> apply_alpha(v, 0)]
    /\ UNCHANGED <<displayVars, busVars, lightsVars, taskVars, keyVars, usbVars,
                   schedVars>>

\* the following frames, `for i in 0..NUM_FRAMES`
NextFrame ==
    /\ call.op = "apply_alpha"
    /\ call.alpha + 1 < NUM_FRAMES
    /\ call' = [call EXCEPT !.alpha = call.alpha + 1,
                            !.ret = apply_alpha(call.value, call.alpha + 1)]
    /\ UNCHANGED <<displayVars, busVars, lightsVars, taskVars, keyVars, usbVars,
                   schedVars>>

NextFade == FirstFrame \/ NextFrame

SpecFade == InitFade /\ [][NextFade]_vars

(***************************************************************************)
(* C7.  Cross-fade quantisation: for every channel value v of 0..255 and   *)
(* frame i of 0..99 the displayed channel is floor(v*i/50) when i < 50 and *)
(* floor(v*(100-i)/50) when i >= 50; it never exceeds v, so the cast to 8  *)
(* bits never truncates; it is 0 at i = 0 and v at i = 50; frames i and    *)
(* 100-i give the same value for every i of 1..49 (v = 200, i = 25 gives   *)
(* 100).                                                                   *)
(***************************************************************************)
C7_CrossFade ==
    call.op = "apply_alpha" =>
        LET v == call.value
            i == call.alpha
        IN /\ i \in 0..99
           /\ i < 50 => call.ret = (v * i) \div 50
           /\ i >= 50 => call.ret = (v * (100 - i)) \div 50
           /\ call.ret <= v
           /\ i = 0 => call.ret = 0
           /\ i = 50 => call.ret = v
           /\ i \in 1..49 => call.ret = apply_alpha(v, 100 - i)
           /\ (v = 200 /\ i = 25) => call.ret = 100

C7_Witness ==
    /\ call.op = "apply_alpha"
    /\ call.value = 200
    /\ call.alpha = 25
    /\ call.ret = 100

(***************************************************************************)
(* SpecFlush: batches of draw calls and flushes over a bus that may fail.  *)
(* Every caller of flush in main.rs unwraps its result, so a failed flush  *)
(* ends the program.                                                       *)
(***************************************************************************)
\* the pixels drawn: two points on different devices (device 1 pixel 0 and
\* device 0 pixel 15) and one out of range
BatchPixels ==
    {<<<<0, 4>>, WHITE>>, <<<<0, 4>>, RED>>,
     <<<<7, 7>>, WHITE>>, <<<<7, 7>>, RED>>,
     <<<<8, 0>>, WHITE>>}

Healthy == call.ret = Ok("unit")

InitFlush ==
    /\ call = NewCall
    /\ NewDisplay
    /\ NewKeypad
    /\ NewSched
    /\ NewTask(<< >>)
    /\ NewLights(1)

BatchDraw ==
    /\ Healthy
    /\ ndraws < MaxBatch
    /\ \E pixel \in BatchPixels :
        LET r == draw_iter(framebuffer, Hardware, <<pixel>>)
        IN /\ Effect(r)
           /\ call' = [op |-> "draw_iter", pixels |-> <<pixel>>, ret |-> r.ret]
    /\ ndraws' = ndraws + 1
    /\ UNCHANGED <<nflush, offDisplay>>

BatchClear ==
    /\ Healthy
    /\ ndraws < MaxBatch
    /\ \E c \in {BLACK, RED} :
        LET r == draw_iter(framebuffer, Hardware, BoxPixels(c))
        IN /\ Effect(r)
           /\ call' = [op |-> "clear", color |-> c, ret |-> r.ret]
    /\ ndraws' = ndraws + 1
    /\ UNCHANGED <<nflush, offDisplay>>

Flush ==
    /\ Healthy
    /\ nflush < MaxFlushes
    /\ \E okOps \in 0..OpsPerFlush :
        LET r == flush(framebuffer, Hardware, okOps)
        IN /\ Effect(r)
           /\ call' = [op |-> "flush", ret |-> r.ret]
    /\ nflush' = nflush + 1
    /\ UNCHANGED <<ndraws, offDisplay>>

NextFlush == BatchDraw \/ BatchClear \/ Flush

SpecFlush == InitFlush /\ [][NextFlush]_vars

\* the 16-entry slice of the framebuffer that belongs to device d
Slice(fb, d) == [i \in 0..(PixelsPerDevice - 1) |-> fb[16 * d + i]]

\* the j-th bus operation of a flush of fb that meets no failure: devices in
\* order, for each its 16 pixel writes in order and then its show
ExpectedOp(fb, j) ==
    LET d == (j - 1) \div OpsPerDevice
        i == (j - 1) % OpsPerDevice
    IN IF i < PixelsPerDevice THEN SetPixelRgb(d, i, fb[16 * d + i]) ELSE Show(d)

FlushStep == call'.op = "flush" /\ nflush' = nflush + 1

\* C9: the bus operations of a flush are an initial part of: device 0's 16
\* writes of framebuffer[0..15] then its show, device 1's 16 writes of
\* framebuffer[16..31] then its show, and so on to device 3.  The flush
\* returns Ok exactly when all 68 were done and the device error otherwise,
\* the sequence ending where the bus failed.  A device displays its new
\* slice exactly when its show was reached and keeps the frame it displayed
\* before otherwise, so it never displays a partly written frame.  The
\* framebuffer is not changed.
C9_FlushCommit ==
    [][FlushStep =>
        /\ Len(buslog') <= OpsPerFlush
        /\ \A j \in 1..Len(buslog') : buslog'[j] = ExpectedOp(framebuffer, j)
        /\ call'.ret = IF Len(buslog') = OpsPerFlush THEN Ok("unit")
                       ELSE Err("Device")
        /\ \A d \in 0..(NumDevices - 1) :
            shown'[d] = IF Len(buslog') >= OpsPerDevice * (d + 1)
                        THEN Slice(framebuffer, d) ELSE shown[d]
        /\ framebuffer' = framebuffer]_vars

\* a red frame was flushed and the bus failed at device 1's sixth write:
\* device 0 displays red, device 1 holds five red pixels that it does not
\* display
C9_Witness ==
    /\ call.op = "flush"
    /\ call.ret = Err("Device")
    /\ Len(buslog) = OpsPerDevice + 5
    /\ shown[0][15] = RED
    /\ neopixels[1][4] = RED
    /\ neopixels[1][5] = BLACK
    /\ shown[1] = dark[1]

DrawStep == call'.op \in {"draw_iter", "clear"} /\ ndraws' = ndraws + 1

Shows(log) == {j \in 1..Len(log) : log[j][1] = "show"}

\* C10: a draw_iter or clear call does no bus operation and leaves what the
\* devices hold and display as it was; a flush that succeeds, whatever the
\* number of draw calls before it, does exactly 4 show commits, one for each
\* device, after which the devices display the framebuffer.
C10_FlushExplicit ==
    [][/\ DrawStep =>
            /\ buslog' = << >>
            /\ neopixels' = neopixels
            /\ shown' = shown
       /\ (FlushStep /\ call'.ret = Ok("unit")) =>
            /\ Cardinality(Shows(buslog')) = NumDevices
            /\ \A d \in 0..(NumDevices - 1) :
                /\ Cardinality({j \in Shows(buslog') : buslog'[j] = Show(d)}) = 1
                /\ shown'[d] = Slice(framebuffer, d)]_vars

\* two draw calls on different devices, then one flush that succeeded with
\* 4 show commits
C10_Witness ==
    /\ call.op = "flush"
    /\ call.ret = Ok("unit")
    /\ ndraws = 2
    /\ nflush = 1
    /\ Cardinality(Shows(buslog)) = 4
    /\ shown[1][0] = WHITE
    /\ shown[0][15] = RED

(***************************************************************************)
(* The display task run_display (src/src/main.rs): the breathing effect    *)
(* on the heart image, then the scrolling text, then the re-arm.           *)
(*                                                                         *)
(* The image file heart.bmp and the glyphs of embedded-graphics' FONT_5X8  *)
(* are not part of the sources; an 8x8 image and 5x8 glyphs of the same    *)
(* dimensions stand for them.  Nothing below depends on their shapes.      *)
(***************************************************************************)
TEXT_WIDTH == 5
FontHeight == 8

\* the rows of a picture, top to bottom, each the set of its lit columns
HeartRows ==
    <<{}, {1, 2, 5, 6}, 0..7, 0..7, 1..6, 2..5, {3, 4}, {}>>

\* bmp.pixels(): all 64 pixels, row by row
heart_bmp ==
    [k \in 1..NumPixels |->
        LET x == (k - 1) % Side
            y == (k - 1) \div Side
        IN <<<<x, y>>, IF x \in HeartRows[y + 1] THEN RED ELSE BLACK>>]

Font(ch) ==
    CASE ch = "H" -> <<{0, 4}, {0, 4}, {0, 4}, 0..4, {0, 4}, {0, 4}, {0, 4}, {}>>
      [] ch = "I" -> <<1..3, {2}, {2}, {2}, {2}, {2}, 1..3, {}>>
      [] ch = "i" -> <<{2}, {}, {1, 2}, {2}, {2}, {2}, 1..3, {}>>
      [] ch = "T" -> <<0..4, {2}, {2}, {2}, {2}, {2}, {2}, {}>>
      [] ch = "h" -> <<{0}, {0}, 0..3, {0, 4}, {0, 4}, {0, 4}, {0, 4}, {}>>
      [] ch = "e" -> <<{}, {}, 1..3, {0, 4}, 0..4, {0}, 1..3, {}>>
      [] ch = "r" -> <<{}, {}, {0, 2, 3}, {0, 1}, {0}, {0}, {0}, {}>>
      [] ch = "!" -> <<{2}, {2}, {2}, {2}, {2}, {}, {2}, {}>>
      [] OTHER -> <<{}, {}, {}, {}, {}, {}, {}, {}>>

\* the pixels Text::draw hands to the display: the lit pixels of the glyphs,
\* in white, glyph after glyph to the right of position, whose y is the
\* bottom row of the glyphs (Baseline::Bottom)
text_pixels(t, position) ==
    LET cells == [k \in 1..(Len(t) * TEXT_WIDTH * FontHeight) |->
                    LET g == (k - 1) \div (TEXT_WIDTH * FontHeight)
                        row == ((k - 1) % (TEXT_WIDTH * FontHeight)) \div TEXT_WIDTH
                        col == (k - 1) % TEXT_WIDTH
                    IN [point |-> <<position[1] + g * TEXT_WIDTH + col,
                                    position[2] - (FontHeight - 1) + row>>,
                        on |-> col \in Font(t[g + 1])[row + 1]]]
        IsOn(c) == c.on
        ink == SelectSeq(cells, IsOn)
    IN [k \in 1..Len(ink) |-> <<ink[k].point, WHITE>>]

\* a plausible slip: the scroll stops when the last glyph reaches the left
\* edge
max_disp_last_glyph(t) == (Len(t) - 1) * TEXT_WIDTH

\* scroll_text's max_disp
max_disp(t) == Len(t) * TEXT_WIDTH

\* the pixels of frame i of apply_breathing_effect
fade_pixels(i) ==
    [k \in 1..NumPixels |-> <<heart_bmp[k][1], convert_color(heart_bmp[k][2], i)>>]

\* the texts scrolled: "", "HI" and the text of run_display, "Hi There!!"
Texts ==
    {<< >>, <<"H", "I">>,
     <<"H", "i", " ", "T", "h", "e", "r", "e", "!", "!">>}

\* where the bus fails during one flush: at once, at device 1's sixth
\* write, at the last show, or not at all
BusFaults == {0, OpsPerDevice + 5, OpsPerFlush - 1, OpsPerFlush}

InitScroll ==
    /\ call = NewCall
    /\ NewDisplay
    /\ NewKeypad
    /\ NewSched
    /\ NewLights(1)
    /\ \E t \in Texts : NewTask(t)

\* the task is dispatched and enters apply_breathing_effect
RunDisplay ==
    /\ phase = "pending"
    /\ passes < MaxPasses
    /\ phase' = "fade"
    /\ next_call' = "clear"
    /\ loop_i' = 0
    /\ frame' = << >>
    /\ passes' = passes + 1
    /\ call' = [op |-> "run_display", ret |-> Ok("unit")]
    /\ UNCHANGED <<text, offsets, first_frames, displayVars, busVars, offTask>>

\* display.clear(Rgb888::BLACK).unwrap(), of either animation
FrameClear ==
    /\ phase \in {"fade", "scroll"}
    /\ next_call = "clear"
    /\ LET r == draw_iter(framebuffer, Hardware, BoxPixels(BLACK))
       IN /\ Effect(r)
          /\ call' = [op |-> "clear", color |-> BLACK, ret |-> r.ret]
    /\ frame' = <<"clear">>
    /\ next_call' = "draw"
    /\ UNCHANGED <<text, phase, loop_i, offsets, passes, first_frames,
                   ndraws, nflush, offTask>>

\* the frame's drawing: the image at alpha i, or the text at Point(-i, 7)
FrameDraw ==
    /\ phase \in {"fade", "scroll"}
    /\ next_call = "draw"
    /\ LET pixels == IF phase = "fade" THEN fade_pixels(loop_i)
                     ELSE text_pixels(text, <<0 - loop_i, 7>>)
           r == draw_iter(framebuffer, Hardware, pixels)
       IN /\ Effect(r)
          /\ call' = [op |-> "draw_iter", pixels |-> pixels, ret |-> r.ret]
    /\ frame' = Append(frame, "draw")
    /\ next_call' = "flush"
    /\ UNCHANGED <<text, phase, loop_i, offsets, passes, first_frames,
                   ndraws, nflush, offTask>>

\* display.flush().unwrap() fails: the task panics
FlushPanics ==
    /\ phase \in {"fade", "scroll"}
    /\ next_call = "flush"
    /\ \E okOps \in BusFaults :
        LET r == flush(framebuffer, Hardware, okOps)
        IN /\ r.ret.tag = "Err"
           /\ Effect(r)
    /\ call' = [op |-> "flush", ret |-> Panic]
    /\ phase' = "halt"
    /\ UNCHANGED <<text, next_call, loop_i, frame, offsets, passes,
                   first_frames, ndraws, nflush, offTask>>

\* the flush and delay that end frame i of apply_breathing_effect; after
\* frame NUM_FRAMES - 1 scroll_text is entered
FadeFlush ==
    /\ phase = "fade"
    /\ next_call = "flush"
    /\ \E okOps \in BusFaults :
        LET r == flush(framebuffer, Hardware, okOps)
        IN /\ r.ret.tag = "Ok"
           /\ Effect(r)
           /\ call' = [op |-> "flush", ret |-> r.ret]
    /\ frame' = Append(frame, "flush")
    /\ next_call' = "clear"
    /\ IF loop_i + 1 < NUM_FRAMES
       THEN /\ loop_i' = loop_i + 1
            /\ UNCHANGED <<phase, offsets>>
       ELSE /\ loop_i' = 0
            /\ offsets' = << >>
            /\ phase' = IF 0 < max_disp(text) THEN "scroll" ELSE "rearm"
    /\ UNCHANGED <<text, passes, first_frames, ndraws, nflush, offTask>>

\* the flush and delay that end frame i of scroll_text; after frame
\* max_disp - 1 the function returns
ScrollFlush ==
    /\ phase = "scroll"
    /\ next_call = "flush"
    /\ \E okOps \in BusFaults :
        LET r == flush(framebuffer, Hardware, okOps)
        IN /\ r.ret.tag = "Ok"
           /\ Effect(r)
           /\ call' = [op |-> "flush", ret |-> r.ret]
    /\ frame' = Append(frame, "flush")
    /\ next_call' = "clear"
    /\ offsets' = Append(offsets, 0 - loop_i)
    /\ first_frames' = IF loop_i = 0 /\ Len(first_frames) < passes
                       THEN Append(first_frames, framebuffer)
                       ELSE first_frames
    /\ IF loop_i + 1 < max_disp(text)
       THEN loop_i' = loop_i + 1 /\ phase' = phase
       ELSE loop_i' = loop_i /\ phase' = "rearm"
    /\ UNCHANGED <<text, passes, ndraws, nflush, offTask>>

\* run_display::spawn_after(Milliseconds(10u32)).ok()
Rearm ==
    /\ phase = "rearm"
    /\ phase' = "pending"
    /\ call' = [op |-> "spawn_after", ret |-> Ok("unit")]
    /\ UNCHANGED <<text, next_call, loop_i, frame, offsets, passes,
                   first_frames, displayVars, busVars, offTask>>

NextScroll ==
    \/ RunDisplay
    \/ FrameClear
    \/ FrameDraw
    \/ FlushPanics
    \/ FadeFlush
    \/ ScrollFlush
    \/ Rearm

SpecScroll == InitScroll /\ [][NextScroll]_vars

\* a scroll_text frame is completed by this step
FrameDone == Len(offsets') = Len(offsets) + 1

\* scroll_text returns in this step (or is not entered, for the empty text)
PassDone == phase # "rearm" /\ phase' = "rearm"

\* C8: the frames of one scroll_text pass have the offsets 0, -1, -2, ... in
\* that order, never more than 5 times the length of the text; each frame
\* is made of a clear, a draw and one flush, in that order, the flush
\* writing all four devices; a pass that returns has rendered exactly
\* 5 * Len(text) frames; and the first frame of a pass has the framebuffer
\* content of the first frame of the pass before it.
C8_ScrollingText ==
    [][/\ FrameDone =>
            /\ offsets'[Len(offsets')] = 0 - Len(offsets)
            /\ Len(offsets') <= Len(text) * 5
            /\ frame' = <<"clear", "draw", "flush">>
            /\ Len(buslog') = OpsPerFlush
       /\ PassDone =>
            offsets' = [k \in 1..(Len(text) * 5) |-> 1 - k]
       /\ \A p \in 2..Len(first_frames') :
            first_frames'[p] = first_frames'[p - 1]]_vars

\* "HI" was scrolled twice: the second pass has rendered its 10 offsets and
\* both passes began with the same frame, which shows part of the text
C8_Witness ==
    /\ text = <<"H", "I">>
    /\ phase = "rearm"
    /\ passes = 2
    /\ offsets = <<0, 0 - 1, 0 - 2, 0 - 3, 0 - 4, 0 - 5, 0 - 6, 0 - 7, 0 - 8, 0 - 9>>
    /\ Len(first_frames) = 2
    /\ \E k \in 0..(NumPixels - 1) : first_frames[2][k] = WHITE
    /\ \E k \in 0..(NumPixels - 1) : first_frames[2][k] = BLACK

(***************************************************************************)
(* Key events (NeoTrellisDisplay::process_events, src/src/display.rs) and  *)
(* the HID report (hid_task, src/src/main.rs).                             *)
(*                                                                         *)
(* main.rs has no call of process_events; the model calls it as a client   *)
(* of the display does, with an event_handler that records its argument.   *)
(* init enables the Falling and Rising edges only, so these are the edges  *)
(* the keypads queue.                                                      *)
(***************************************************************************)
keycode_0 == 39

\* a plausible slip: the offset of the scan codes is left out
key_event_no_offset(index, edge) ==
    [usb_scan_code |-> AsU8(index),
     event_type |-> IF edge = "Rising" THEN "KeyDown" ELSE "KeyUp"]

\* KeyEvent { usb_scan_code: index as u8 + 4, event_type: event.event.into() }
key_event(index, edge) ==
    [usb_scan_code |-> AsU8(index) + 4,
     event_type |-> IF edge = "Rising" THEN "KeyDown" ELSE "KeyUp"]

\* a plausible slip: after a None the loop goes on to its next iteration
RECURSIVE events_loop_retrying(_, _, _)
events_loop_retrying(st, dev_idx, n) ==
    IF n = 0 THEN st
    ELSE IF st.okOps = 0
    THEN [st EXCEPT !.ret = Err("Device"),
                    !.reads = Append(@, <<"get_event", dev_idx, "Err">>)]
    ELSE IF st.fifo = << >>
    THEN events_loop_retrying(
            [st EXCEPT !.okOps = @ - 1,
                       !.reads = Append(@, <<"get_event", dev_idx, "None">>)],
            dev_idx, n - 1)
    ELSE LET event == Head(st.fifo)
             index == index_for_device_and_pixel(dev_idx, event.key)
         IN events_loop_retrying(
                [st EXCEPT !.okOps = @ - 1,
                           !.fifo = Tail(@),
                           !.fb[index] = IF event.event = "Falling" THEN BLACK
                                         ELSE WHITE,
                           !.any_updates = TRUE,
                           !.reads = Append(@, <<"get_event", dev_idx, "Some">>),
                           !.handled = Append(@,
                               [usb_scan_code |-> index + 4,
                                event_type |-> IF event.event = "Rising"
                                               THEN "KeyDown" ELSE "KeyUp"])],
                dev_idx, n - 1)

PendingEvents(dev, n) == <<"pending_events", dev, n>>
PendingEventsFailed(dev) == <<"pending_events_failed", dev>>
GetEvent(dev, result) == <<"get_event", dev, result>>

\* `for _ in 0..pending_events` with n iterations left, on device dev_idx
\* whose FIFO is st.fifo: get_event fails, returns None (the FIFO is empty:
\* the error is logged and the loop left) or returns the oldest event
RECURSIVE events_loop(_, _, _)
events_loop(st, dev_idx, n) ==
    IF n = 0 THEN st
    ELSE IF st.okOps = 0
    THEN [st EXCEPT !.ret = Err("Device"),
                    !.reads = Append(@, GetEvent(dev_idx, "Err"))]
    ELSE IF st.fifo = << >>
    THEN [st EXCEPT !.okOps = @ - 1,
                    !.reads = Append(@, GetEvent(dev_idx, "None"))]
    ELSE LET event == Head(st.fifo)
             index == index_for_device_and_pixel(dev_idx, event.key)
         IN events_loop(
                [st EXCEPT !.okOps = @ - 1,
                           !.fifo = Tail(@),
                           !.fb[index] = IF event.event = "Falling" THEN BLACK
                                         ELSE WHITE,
                           !.any_updates = TRUE,
                           !.reads = Append(@, GetEvent(dev_idx, "Some")),
                           !.handled = Append(@, key_event(index, event.event))],
                dev_idx, n - 1)

\* process_events' loop over the devices from dev_idx on; the keypad of
\* device ghost reports two events more than its FIFO holds
RECURSIVE devices_loop(_, _, _)
devices_loop(st, ghost, dev_idx) ==
    IF dev_idx >= NumDevices THEN st
    ELSE IF st.okOps = 0
    THEN [st EXCEPT !.ret = Err("Device"),
                    !.reads = Append(@, PendingEventsFailed(dev_idx))]
    ELSE LET pending_events ==
                 Len(st.events[dev_idx]) + (IF dev_idx = ghost THEN 2 ELSE 0)
             r == events_loop([st EXCEPT !.okOps = @ - 1,
                                         !.fifo = st.events[dev_idx],
                                         !.reads = Append(@,
                                             PendingEvents(dev_idx, pending_events))],
                              dev_idx, pending_events)
             st1 == [r EXCEPT !.events[dev_idx] = r.fifo]
         IN IF r.ret.tag = "Err" THEN st1 ELSE devices_loop(st1, ghost, dev_idx + 1)

\* a plausible slip: the flush is not made to depend on any_updates
process_events_always_flushing(fb, hw, evs, log, ghost, okOps) ==
    LET st == devices_loop([fb |-> fb, events |-> evs, fifo |-> << >>,
                            handled |-> log, any_updates |-> FALSE,
                            reads |-> << >>,
                            okOps |-> okOps, ret |-> Ok("unit")],
                           ghost, 0)
        f == flush(st.fb, hw, st.okOps)
        flushed == st.ret.tag = "Ok"
    IN [fb |-> st.fb,
        events |-> st.events,
        handled |-> st.handled,
        reads |-> st.reads,
        ret |-> IF flushed THEN f.ret ELSE st.ret,
        hw |-> IF flushed THEN f.hw ELSE hw,
        ops |-> IF flushed THEN f.ops ELSE << >>]

\* NeoTrellisDisplay::process_events, the handler appending to log
process_events(fb, hw, evs, log, ghost, okOps) ==
    LET st == devices_loop([fb |-> fb, events |-> evs, fifo |-> << >>,
                            handled |-> log, any_updates |-> FALSE,
                            reads |-> << >>,
                            okOps |-> okOps, ret |-> Ok("unit")],
                           ghost, 0)
        f == flush(st.fb, hw, st.okOps)
        flushed == st.ret.tag = "Ok" /\ st.any_updates
    IN [fb |-> st.fb,
        events |-> st.events,
        handled |-> st.handled,
        reads |-> st.reads,
        ret |-> IF flushed THEN f.ret ELSE st.ret,
        hw |-> IF flushed THEN f.hw ELSE hw,
        ops |-> IF flushed THEN f.ops ELSE << >>]

\* the KeyboardReport hid_task builds
hid_report(pingpong) ==
    [modifier |-> 0, leds |-> 0,
     keycodes |-> <<IF pingpong THEN keycode_0 ELSE 0, 0, 0, 0, 0, 0>>]

\* the keys that are pressed and released, as <<device, key>>
Keys == {<<0, 0>>, <<0, 1>>, <<3, 15>>}

\* the bus operations that succeed in one process_events: none, the first
\* only, the first three, or all of them
NoFault == 2 * OpsPerFlush
KeyBusFaults == {0, 1, 3, NoFault}

\* the device whose keypad reports more events than it holds: one with
\* keys, one without, or none
Ghosts == {0, 1, NumDevices}

InitKeys ==
    /\ call = NewCall
    /\ NewDisplay
    /\ NewKeypad
    /\ NewSched
    /\ NewLights(1)
    /\ NewTask(<< >>)

\* a key goes down or up and its keypad queues the edge
KeyEdge ==
    /\ Running
    /\ Len(handled) + Len(events[0]) + Len(events[1])
         + Len(events[2]) + Len(events[3]) < MaxEdges
    /\ \E k \in Keys :
        /\ events' = [events EXCEPT ![k[1]] =
                        Append(@, [key |-> k[2],
                                   event |-> IF k \in held THEN "Falling"
                                             ELSE "Rising"])]
        /\ held' = IF k \in held THEN held \ {k} ELSE held \cup {k}
    /\ UNCHANGED <<call, handled, keylog, displayVars, busVars, lightsVars,
                   taskVars, usbVars, schedVars>>

ProcessEvents ==
    /\ Running
    /\ \E ghost \in Ghosts, okOps \in KeyBusFaults :
        LET r == process_events(framebuffer, Hardware, events, handled,
                                ghost, okOps)
        IN /\ Effect(r)
           /\ events' = r.events
           /\ handled' = r.handled
           /\ keylog' = r.reads
           /\ call' = [op |-> "process_events", ret |-> r.ret]
    /\ UNCHANGED <<held, ndraws, nflush, lightsVars, taskVars, usbVars,
                   schedVars>>

\* hid_task; push_input accepts the report, would block (a warning is
\* logged) or fails otherwise (the task panics)
HidTask ==
    /\ Running
    /\ keycode_pingpong' = ~keycode_pingpong
    /\ \E push_input \in {"Ok", "WouldBlock", "Other"} :
        /\ sent' = IF push_input = "Ok" THEN hid_report(keycode_pingpong)
                   ELSE sent
        /\ call' = [op |-> "hid_task", push_input |-> push_input,
                    ret |-> IF push_input = "Other" THEN Panic ELSE Ok("unit")]
    /\ UNCHANGED <<displayVars, busVars, lightsVars, taskVars, keyVars,
                   schedVars>>

NextKeys == KeyEdge \/ ProcessEvents \/ HidTask

SpecKeys == InitKeys /\ [][NextKeys]_vars

\* the keypads and process_events alone
NextEvents == KeyEdge \/ ProcessEvents

SpecEvents == InitKeys /\ [][NextEvents]_vars

\* the set a 6-key rollover buffer holds after the first n events of log: a
\* key-down inserts its code unless 6 codes are held, a key-up removes its
\* code if present
RECURSIVE RolloverAfter(_, _)
RolloverAfter(log, n) ==
    IF n = 0 THEN {}
    ELSE LET before == RolloverAfter(log, n - 1)
             code == log[n].usb_scan_code
         IN IF log[n].event_type = "KeyDown"
            THEN IF Cardinality(before) < 6 THEN before \cup {code} ELSE before
            ELSE before \ {code}

\* the scan codes a report names as pressed
Reported(report) ==
    {report.keycodes[j] : j \in 1..Len(report.keycodes)} \ {0}

\* C4: a report that hid_task sends names as pressed at most 6 scan codes,
\* namely those a 6-key rollover buffer holds after the key events handled
\* so far: the first 6 of the keys held, a press beyond 6 being dropped and
\* the release of a code that is not held changing nothing.
C4_RolloverBound ==
    [][(/\ call'.op = "hid_task"
        /\ keycode_pingpong' # keycode_pingpong
        /\ call'.push_input = "Ok")
        => /\ Cardinality(Reported(sent')) <= 6
           /\ Reported(sent') = RolloverAfter(handled', Len(handled'))]_vars

\* a step that is one call of process_events
ProcessStep == call'.op = "process_events" /\ held' = held

\* the positions of the get_event calls on device d in a read log
Reads(log, d) ==
    {j \in 1..Len(log) : log[j][1] = "get_event" /\ log[j][2] = d}
\* those that returned result
ReadsWith(log, d, result) == {j \in Reads(log, d) : log[j][3] = result}
\* the devices whose pending_events was called, in order
Polled(log) ==
    LET IsPoll(e) == e[1] = "pending_events"
        polls == SelectSeq(log, IsPoll)
    IN [j \in 1..Len(polls) |-> polls[j][2]]
NoReadFailed(log) ==
    \A j \in 1..Len(log) :
        /\ log[j][1] # "pending_events_failed"
        /\ log[j][1] = "get_event" => log[j][3] # "Err"

\* C11: in one process_events call a device that reported N pending events
\* is asked for at most N events and for none after the first read that
\* yields no event; the events read before stay applied (they reached the
\* handler and left the FIFO, the others stay queued); and unless a bus
\* operation fails all four devices are polled in order and the call
\* returns Ok, short read or not.
C11_IncompleteRead ==
    [][ProcessStep =>
        /\ \A j \in 1..Len(keylog') :
            /\ keylog'[j][1] = "pending_events"
                => Cardinality(Reads(keylog', keylog'[j][2])) <= keylog'[j][3]
            /\ (keylog'[j][1] = "get_event" /\ keylog'[j][3] = "None")
                => \A j2 \in Reads(keylog', keylog'[j][2]) : j2 <= j
        /\ \A d \in 0..(NumDevices - 1) :
            LET read == Cardinality(ReadsWith(keylog', d, "Some"))
            IN events'[d] = SubSeq(events[d], read + 1, Len(events[d]))
        /\ Len(handled') = Len(handled)
             + Cardinality({j \in 1..Len(keylog') :
                              keylog'[j][1] = "get_event" /\ keylog'[j][3] = "Some"})
        /\ NoReadFailed(keylog') =>
            /\ Polled(keylog') = <<0, 1, 2, 3>>
            /\ (handled' = handled \/ Len(buslog') = OpsPerFlush)
                => call'.ret = Ok("unit")]_vars

\* device 0 reported 3 events and held one: it was read twice, devices 1 to
\* 3 were polled after it and the event of device 3 was read
C11_Witness ==
    /\ call.op = "process_events"
    /\ call.ret = Ok("unit")
    /\ keylog = <<PendingEvents(0, 3), GetEvent(0, "Some"), GetEvent(0, "None"),
                  PendingEvents(1, 0), PendingEvents(2, 0),
                  PendingEvents(3, 1), GetEvent(3, "Some")>>
    /\ Len(handled) = 2

\* the raw events one process_events step took from device d's FIFO
ConsumedFrom(d) ==
    [j \in 1..(Len(events[d]) - Len(events'[d])) |->
        [dev |-> d, key |-> events[d][j].key, event |-> events[d][j].event]]

\* all of them, in the order of reading
Consumed ==
    ConsumedFrom(0) \o ConsumedFrom(1) \o ConsumedFrom(2) \o ConsumedFrom(3)

\* C12: process_events gives the handler one KeyEvent for every raw event it
\* reads, in the order of reading, with scan code 16 * device + key + 4
\* (within 4..67) and KeyDown for a rising, KeyUp for a falling edge; the
\* framebuffer entry 16 * device + key holds white after a rising and black
\* after a falling edge (the last one read for that key) and every other
\* entry is as before.
C12_KeyEventMapping ==
    [][ProcessStep =>
        LET raw == Consumed
        IN /\ handled' = handled \o
                [j \in 1..Len(raw) |->
                    [usb_scan_code |-> 16 * raw[j].dev + raw[j].key + 4,
                     event_type |-> IF raw[j].event = "Rising" THEN "KeyDown"
                                    ELSE "KeyUp"]]
           /\ \A j \in 1..Len(handled') : handled'[j].usb_scan_code \in 4..67
           /\ \A j \in 1..Len(raw) :
                (\A j2 \in (j + 1)..Len(raw) :
                    <<raw[j2].dev, raw[j2].key>> # <<raw[j].dev, raw[j].key>>)
                => framebuffer'[16 * raw[j].dev + raw[j].key] =
                     IF raw[j].event = "Rising" THEN WHITE ELSE BLACK
           /\ \A idx \in (0..(NumPixels - 1))
                            \ {16 * raw[j].dev + raw[j].key : j \in 1..Len(raw)} :
                framebuffer'[idx] = framebuffer[idx]]_vars

\* key 0 of device 0 was pressed and released and key 15 of device 3 was
\* pressed; one process_events handled the three edges
C12_Witness ==
    /\ call.op = "process_events"
    /\ Len(keylog) = 7
    /\ handled = <<[usb_scan_code |-> 4, event_type |-> "KeyDown"],
                   [usb_scan_code |-> 4, event_type |-> "KeyUp"],
                   [usb_scan_code |-> 67, event_type |-> "KeyDown"]>>
    /\ framebuffer[0] = BLACK
    /\ framebuffer[63] = WHITE

\* C19: a process_events call that returns Ok has done one whole flush, of
\* the framebuffer as it is after the events of all four devices were
\* applied, when it consumed an event, whether or not the framebuffer
\* changed; and has done no pixel write and no show, the devices being as
\* before, when it consumed none.
C19_ConditionalFlush ==
    [][(ProcessStep /\ call'.ret = Ok("unit")) =>
        /\ Polled(keylog') = <<0, 1, 2, 3>>
        /\ IF handled' # handled
           THEN /\ buslog' = [j \in 1..OpsPerFlush |-> ExpectedOp(framebuffer', j)]
                /\ Cardinality(Shows(buslog')) = NumDevices
                /\ \A d \in 0..(NumDevices - 1) :
                    shown'[d] = Slice(framebuffer', d)
           ELSE /\ buslog' = << >>
                /\ neopixels' = neopixels
                /\ shown' = shown]_vars

\* one call read the press and the release of key 0 of device 0: the
\* framebuffer is as it was, all black, and was flushed all the same
C19_Witness ==
    /\ call.op = "process_events"
    /\ call.ret = Ok("unit")
    /\ keylog = <<PendingEvents(0, 2), GetEvent(0, "Some"), GetEvent(0, "Some"),
                  PendingEvents(1, 0), PendingEvents(2, 0), PendingEvents(3, 0)>>
    /\ Len(handled) = 2
    /\ framebuffer = new_framebuffer
    /\ Len(buslog) = OpsPerFlush

(***************************************************************************)
(* The three tasks of src/src/main.rs under RTIC's scheduling: fixed       *)
(* priorities, a task started at once when its priority is above that of   *)
(* the code that runs, the lock on hid_class raising the priority of its   *)
(* holder to the ceiling, and spawn queues of one instance per task.       *)
(*                                                                         *)
(* A timer may expire whenever no task waits to be started: starting a     *)
(* pending task takes a few cycles, the timers milliseconds.  A run of     *)
(* hid_task, which builds one report and makes one non-blocking call, is   *)
(* shorter than the 2 ms between two expiries of usb_task's timer: at most *)
(* one expiry falls into it.                                               *)
(***************************************************************************)
usb_task_priority == 3
hid_task_priority == 2
run_display_priority == 1
\* no task declares a capacity: one instance may wait per task
Capacity == 1

Max(a, b) == IF a > b THEN a ELSE b

\* a plausible slip: the lock leaves the priority of its holder as it is
hid_class_unraised == hid_task_priority

\* the ceiling of hid_class: the highest priority among the tasks that share it
hid_class_ceiling == Max(usb_task_priority, hid_task_priority)

DisplayActive == phase \in {"fade", "scroll", "rearm"}

\* the priorities at which the started tasks run
UsbLevel == IF usb_pc # "idle" THEN usb_task_priority ELSE 0
HidLevel ==
    IF hid_pc \in {"locked", "unlock"} THEN hid_class_ceiling
    ELSE IF hid_pc # "idle" THEN hid_task_priority ELSE 0
DisplayLevel == IF DisplayActive THEN run_display_priority ELSE 0

CurrentPriority == Max(UsbLevel, Max(HidLevel, DisplayLevel))

\* a plausible slip: hid_task started only when no task is at work, as at
\* a priority below that of run_display
HidDispatchable_when_idle == hid_queued > 0 /\ CurrentPriority = 0

\* a spawned task that preempts the running code
UsbDispatchable == usb_queued > 0 /\ usb_task_priority > CurrentPriority
HidDispatchable == hid_queued > 0 /\ hid_task_priority > CurrentPriority
DisplayDispatchable == phase = "pending" /\ run_display_priority > CurrentPriority
NoDispatch == ~UsbDispatchable /\ ~HidDispatchable /\ ~DisplayDispatchable

\* a plausible slip: run_display goes on whatever else is ready or at work
DisplayRuns_unpreempted == DisplayActive

\* the started task that has the processor
UsbRuns == usb_pc # "idle" /\ UsbLevel = CurrentPriority /\ NoDispatch
HidRuns == hid_pc # "idle" /\ HidLevel = CurrentPriority /\ NoDispatch
DisplayRuns == DisplayActive /\ DisplayLevel = CurrentPriority /\ NoDispatch

\* a plausible slip: the free slot is not looked at
spawn_unbounded(waiting) == Ok(waiting + 1)

\* spawn and spawn_after: the instance takes the task's free slot, if any
spawn(waiting) ==
    IF waiting < Capacity THEN Ok(waiting + 1) ELSE Err("no free slot")

\* a plausible slip: the re-arm is left out
spawn_after_forgotten(queued, timer) == Ok(timer)

\* spawn_after of a task with queued instances waiting to start and timer
\* instances in the timer queue: the new length of the timer queue
spawn_after(queued, timer) ==
    LET r == spawn(queued + timer)
    IN IF r.tag = "Ok" THEN Ok(timer + 1) ELSE r

InitSched ==
    /\ call = NewCall
    /\ NewDisplay
    /\ NewKeypad
    /\ NewSched
    /\ NewLights(1)
    /\ NewTask(<<"H", "i", " ", "T", "h", "e", "r", "e", "!", "!">>)

\* the timer queue hands a due usb_task instance to its spawn queue
UsbTimer ==
    /\ Running
    /\ usb_timer > 0
    /\ NoDispatch
    /\ hid_pc # "idle" => ~hid_expired
    /\ usb_timer' = usb_timer - 1
    /\ usb_queued' = usb_queued + 1
    /\ hid_expired' = (hid_pc # "idle")
    /\ UNCHANGED <<call, usb_pc, hid_pc, hid_queued, pushes, displayVars,
                   busVars, lightsVars, taskVars, keyVars, usbVars>>

\* usb_task is started
UsbStart ==
    /\ Running
    /\ UsbDispatchable
    /\ usb_queued' = usb_queued - 1
    /\ usb_pc' = "lock"
    /\ UNCHANGED <<call, hid_pc, usb_timer, hid_queued, pushes, hid_expired, displayVars,
                   busVars, lightsVars, taskVars, keyVars, usbVars>>

\* cx.shared.hid_class.lock: usb_task runs at the ceiling already
UsbLock ==
    /\ Running
    /\ UsbRuns
    /\ usb_pc = "lock"
    /\ usb_pc' = "locked"
    /\ UNCHANGED <<call, hid_pc, usb_queued, usb_timer, hid_queued, pushes, hid_expired,
                   displayVars, busVars, lightsVars, taskVars, keyVars, usbVars>>

\* the closure: usb_dev.poll, and hid_task::spawn().unwrap() when it
\* returns true; then the lock is released
UsbPoll ==
    /\ Running
    /\ UsbRuns
    /\ usb_pc = "locked"
    /\ \E polled \in BOOLEAN :
        LET r == spawn(hid_queued)
        IN IF ~polled
           THEN usb_pc' = "rearm" /\ UNCHANGED <<call, hid_queued>>
           ELSE IF r.tag = "Ok"
           THEN usb_pc' = "rearm" /\ hid_queued' = r.val /\ UNCHANGED call
           ELSE /\ call' = [op |-> "hid_task::spawn", ret |-> Panic]
                /\ UNCHANGED <<usb_pc, hid_queued>>
    /\ UNCHANGED <<hid_pc, usb_queued, usb_timer, pushes, hid_expired, displayVars, busVars,
                   lightsVars, taskVars, keyVars, usbVars>>

\* usb_task::spawn_after(Milliseconds(2u32)).unwrap(), and the task returns
UsbRearm ==
    /\ Running
    /\ UsbRuns
    /\ usb_pc = "rearm"
    /\ LET r == spawn_after(usb_queued, usb_timer)
       IN IF r.tag = "Ok"
          THEN usb_timer' = r.val /\ usb_pc' = "idle" /\ UNCHANGED call
          ELSE /\ call' = [op |-> "usb_task::spawn_after", ret |-> Panic]
               /\ UNCHANGED <<usb_pc, usb_timer>>
    /\ UNCHANGED <<hid_pc, usb_queued, hid_queued, pushes, hid_expired, displayVars, busVars,
                   lightsVars, taskVars, keyVars, usbVars>>

\* hid_task is started
HidStart ==
    /\ Running
    /\ HidDispatchable
    /\ ~UsbDispatchable
    /\ hid_queued' = hid_queued - 1
    /\ hid_pc' = "build"
    /\ pushes' = 0
    /\ hid_expired' = FALSE
    /\ UNCHANGED <<call, usb_pc, usb_queued, usb_timer, displayVars, busVars,
                   lightsVars, taskVars, keyVars, usbVars>>

\* the keycode is chosen and keycode_pingpong inverted
HidBuild ==
    /\ Running
    /\ HidRuns
    /\ hid_pc = "build"
    /\ keycode_pingpong' = ~keycode_pingpong
    /\ hid_pc' = "lock"
    /\ UNCHANGED <<call, sent, usb_pc, usb_queued, usb_timer, hid_queued, pushes, hid_expired,
                   displayVars, busVars, lightsVars, taskVars, keyVars>>

\* cx.shared.hid_class.lock: the priority is raised to the ceiling
HidLock ==
    /\ Running
    /\ HidRuns
    /\ hid_pc = "lock"
    /\ hid_pc' = "locked"
    /\ UNCHANGED <<call, usb_pc, usb_queued, usb_timer, hid_queued, pushes, hid_expired,
                   displayVars, busVars, lightsVars, taskVars, keyVars, usbVars>>

\* a plausible slip: a push that would block is tried again
after_push_retrying(push_input) ==
    IF push_input = "WouldBlock" THEN "locked" ELSE "unlock"

\* where hid_task goes after push_input returned without a panic
after_push(push_input) == "unlock"

\* the closure: the report is pushed; any error but WouldBlock panics
HidPush ==
    /\ Running
    /\ HidRuns
    /\ hid_pc = "locked"
    /\ pushes' = pushes + 1
    /\ \E push_input \in {"Ok", "WouldBlock", "Other"} :
        /\ sent' = IF push_input = "Ok" THEN hid_report(~keycode_pingpong)
                   ELSE sent
        /\ IF push_input = "Other"
           THEN /\ call' = [op |-> "push_input", result |-> push_input,
                            ret |-> Panic]
                /\ UNCHANGED hid_pc
           ELSE /\ call' = [op |-> "push_input", result |-> push_input,
                            ret |-> Ok("unit")]
                /\ hid_pc' = after_push(push_input)
    /\ UNCHANGED <<hid_expired, keycode_pingpong, usb_pc, usb_queued, usb_timer, hid_queued,
                   displayVars, busVars, lightsVars, taskVars, keyVars>>

\* the lock is released and hid_task returns
HidUnlock ==
    /\ Running
    /\ HidRuns
    /\ hid_pc = "unlock"
    /\ hid_pc' = "idle"
    /\ UNCHANGED <<call, usb_pc, usb_queued, usb_timer, hid_queued, pushes, hid_expired,
                   displayVars, busVars, lightsVars, taskVars, keyVars, usbVars>>

\* the timer queue hands the due run_display instance to its spawn queue
DisplayTimer ==
    /\ Running
    /\ phase = "armed"
    /\ NoDispatch
    /\ phase' = "pending"
    /\ UNCHANGED <<call, text, next_call, loop_i, frame, offsets, passes,
                   first_frames, displayVars, busVars, offTask>>

\* run_display is started and enters apply_breathing_effect
SchedRunDisplay ==
    /\ Running
    /\ DisplayDispatchable
    /\ ~UsbDispatchable
    /\ ~HidDispatchable
    /\ phase' = "fade"
    /\ next_call' = "clear"
    /\ loop_i' = 0
    /\ frame' = << >>
    /\ UNCHANGED <<call, text, offsets, passes, first_frames, displayVars,
                   busVars, offTask>>

\* run_display, having the processor, makes the next call of its frame
SchedFrame ==
    /\ Running
    /\ DisplayRuns
    /\ \/ FrameClear
       \/ FrameDraw
       \/ FadeFlush
       \/ ScrollFlush
       \/ FlushPanics

\* run_display::spawn_after(Milliseconds(10u32)).ok(), and the task returns
SchedRearm ==
    /\ Running
    /\ DisplayRuns
    /\ phase = "rearm"
    /\ phase' = "armed"
    /\ UNCHANGED <<call, text, next_call, loop_i, frame, offsets, passes,
                   first_frames, displayVars, busVars, offTask>>

NextSched ==
    \/ UsbTimer
    \/ UsbStart
    \/ UsbLock
    \/ UsbPoll
    \/ UsbRearm
    \/ HidStart
    \/ HidBuild
    \/ HidLock
    \/ HidPush
    \/ HidUnlock
    \/ DisplayTimer
    \/ SchedRunDisplay
    \/ SchedFrame
    \/ SchedRearm

SpecSched == InitSched /\ [][NextSched]_vars

(***************************************************************************)
(* The same tasks with run_display taken one animation at a time: a whole  *)
(* apply_breathing_effect, then a whole scroll_text.  Every frame begins   *)
(* with a clear, which writes all 64 entries, so the framebuffer after     *)
(* frame i is that of frame i alone (WholeAnimationAgrees).                 *)
(***************************************************************************)
\* the framebuffer after a frame: clear, then the frame's drawing
frame_content(fb, pixels) ==
    draw_loop(draw_loop(fb, BoxPixels(BLACK), 1, NumPixels),
              pixels, 1, Len(pixels))

\* an animation of n frames, frame i drawing F[i], in which the flush of
\* frame k meets the bus failing after okOps operations (k = n: no flush
\* fails): the framebuffer, the devices and the result of the last flush
\* made, and its frame
animation(fb, hw, F, n, k, okOps) ==
    LET last == IF k < n THEN k ELSE n - 1
        before == IF last = 0 THEN hw
                  ELSE flush(frame_content(fb, F[last - 1]), hw, OpsPerFlush).hw
        content == frame_content(fb, F[last])
        f == flush(content, before, IF k < n THEN okOps ELSE OpsPerFlush)
    IN [fb |-> content, ret |-> f.ret, hw |-> f.hw, ops |-> f.ops, i |-> last]

\* where a flush of an animation of n frames fails: in its first or last
\* frame, or nowhere
AnimationFaults(n) ==
    {<<k, okOps>> : k \in {0, n - 1}, okOps \in BusFaults \ {OpsPerFlush}}
        \cup {<<n, OpsPerFlush>>}

scroll_pixels(i) == text_pixels(text, <<0 - i, 7>>)

\* apply_breathing_effect(display, timer, heart_bmp, 1000)
BreathingEffect ==
    /\ Running
    /\ DisplayRuns
    /\ phase = "fade"
    /\ \E fault \in AnimationFaults(NUM_FRAMES) :
        LET r == animation(framebuffer, Hardware,
                           [i \in 0..(NUM_FRAMES - 1) |-> fade_pixels(i)],
                           NUM_FRAMES,
                           fault[1], fault[2])
        IN /\ Effect(r)
           /\ IF r.ret.tag = "Ok"
              THEN /\ call' = [op |-> "apply_breathing_effect", ret |-> r.ret]
                   /\ phase' = IF 0 < max_disp(text) THEN "scroll" ELSE "rearm"
                   /\ loop_i' = 0
                   /\ frame' = <<"clear", "draw", "flush">>
              ELSE /\ call' = [op |-> "flush", ret |-> Panic]
                   /\ phase' = "halt"
                   /\ loop_i' = r.i
                   /\ frame' = <<"clear", "draw">>
    /\ offsets' = << >>
    /\ next_call' = "clear"
    /\ UNCHANGED <<text, passes, first_frames, ndraws, nflush, offTask>>

\* scroll_text(display, timer, text)
ScrollText ==
    /\ Running
    /\ DisplayRuns
    /\ phase = "scroll"
    /\ \E fault \in AnimationFaults(max_disp(text)) :
        LET r == animation(framebuffer, Hardware,
                           [i \in 0..(max_disp(text) - 1) |-> scroll_pixels(i)],
                           max_disp(text),
                           fault[1], fault[2])
        IN /\ Effect(r)
           /\ loop_i' = r.i
           /\ IF r.ret.tag = "Ok"
              THEN /\ call' = [op |-> "scroll_text", ret |-> r.ret]
                   /\ phase' = "rearm"
                   /\ frame' = <<"clear", "draw", "flush">>
                   /\ offsets' = [j \in 1..(r.i + 1) |-> 1 - j]
              ELSE /\ call' = [op |-> "flush", ret |-> Panic]
                   /\ phase' = "halt"
                   /\ frame' = <<"clear", "draw">>
                   /\ offsets' = [j \in 1..r.i |-> 1 - j]
    /\ next_call' = "clear"
    /\ UNCHANGED <<text, passes, first_frames, ndraws, nflush, offTask>>

NextRearm ==
    \/ UsbTimer
    \/ UsbStart
    \/ UsbLock
    \/ UsbPoll
    \/ UsbRearm
    \/ HidStart
    \/ HidBuild
    \/ HidLock
    \/ HidPush
    \/ HidUnlock
    \/ DisplayTimer
    \/ SchedRunDisplay
    \/ BreathingEffect
    \/ ScrollText
    \/ SchedRearm

\* neither usb_task nor hid_task is started or waits to be started
HighIdle ==
    /\ usb_pc = "idle"
    /\ hid_pc = "idle"
    /\ usb_queued = 0
    /\ hid_queued = 0

\* run_display has the processor and leaves an animation: a step of
\* BreathingEffect or of ScrollText, which can be taken whenever run_display
\* is in one of the two and has the processor
AnimationEnds ==
    /\ Running
    /\ DisplayRuns
    /\ phase \in {"fade", "scroll"}
    /\ phase' \in {"scroll", "rearm", "halt"}

\* Timers expire and a task that can run does run; usb_task and hid_task
\* take far less than the 2 ms between two usb_task runs, so again and again
\* neither is at work, and run_display has the processor again and again.
RearmFairness ==
    /\ WF_vars(UsbStart \/ UsbLock \/ UsbPoll \/ UsbRearm)
    /\ WF_vars(HidStart \/ HidBuild \/ HidLock \/ HidPush \/ HidUnlock)
    /\ SF_vars(UsbTimer)
    /\ SF_vars(DisplayTimer \/ SchedRunDisplay \/ SchedRearm)
    /\ SF_phase(AnimationEnds)
    /\ []<>HighIdle

SpecRearm == InitSched /\ [][NextRearm]_vars /\ RearmFairness

\* a step in which hid_task calls push_input
PushStep == pushes' = pushes + 1

\* a step in which hid_task returns
HidReturns == hid_pc # "idle" /\ hid_pc' = "idle"

\* C13: a hid_task run calls push_input once: never twice, and once when it
\* returns. A push that returns WouldBlock leaves the report last sent as it
\* was and takes the task to the end of its closure with the system still
\* running, and the task then returns; a push that returns another error
\* halts the system, and once halted no report is sent.
C13_HidSendOutcome ==
    /\ [][/\ pushes' # pushes => (PushStep \/ (hid_pc = "idle" /\ pushes' = 0))
          /\ pushes' <= 1
          /\ HidReturns => (pushes = 1 /\ Running')
          /\ PushStep =>
                /\ hid_pc = "locked"
                /\ call'.op = "push_input"
                /\ call'.result = "WouldBlock" =>
                      (sent' = sent /\ hid_pc' = "unlock" /\ Running')
                /\ call'.result = "Ok" =>
                      (sent' = hid_report(~keycode_pingpong') /\ hid_pc' = "unlock")
                /\ call'.result = "Other" => ~Running'
          /\ ~Running => (sent' = sent /\ pushes' = pushes)]_vars
    /\ (hid_pc = "unlock") ~> (hid_pc = "idle")

\* a run whose push returned WouldBlock has returned, after a report was
\* sent by an earlier run, and the system runs
C13_Witness ==
    /\ Running
    /\ call.op = "push_input"
    /\ call.result = "WouldBlock"
    /\ hid_pc = "idle"
    /\ pushes = 1
    /\ sent # NoReport

\* the tasks inside their hid_class closures
UsbInside == usb_pc = "locked"
HidInside == hid_pc \in {"locked", "unlock"}

\* C14: usb_task and hid_task are never both inside their hid_class
\* closures; while hid_task is inside, the processor runs at the ceiling,
\* which is usb_task's priority 3, a waiting usb_task is not started and
\* usb_task stays where it is; and a step of run_display leaves the reports
\* and the position of both tasks as they are.
C14_MutualExclusion ==
    /\ [](~(UsbInside /\ HidInside))
    /\ [](HidInside =>
            /\ CurrentPriority = hid_class_ceiling
            /\ hid_class_ceiling = usb_task_priority
            /\ ~UsbDispatchable)
    /\ [][/\ (HidInside /\ Running) => usb_pc' = usb_pc
          /\ (DisplayRuns /\ phase' # phase) =>
                UNCHANGED <<usb_pc, hid_pc, sent, pushes, keycode_pingpong>>]_vars

\* hid_task is inside its closure while a usb_task instance, its timer
\* expired, waits to be started
C14_Witness ==
    /\ Running
    /\ hid_pc = "locked"
    /\ usb_queued = 1
    /\ usb_pc = "idle"

\* C20: no spawn of usb_task has panicked; when usb_task is started, up to
\* its poll, no hid_task instance waits to be started, so the slot of
\* hid_task is free for the spawn; and while usb_task is at work no other
\* usb_task instance is timed or waits, so the slot of its re-arm is free.
C20_TriggerNeverOverflows ==
    /\ call.op \notin {"hid_task::spawn", "usb_task::spawn_after"}
    /\ usb_pc \in {"lock", "locked"} => hid_queued = 0
    /\ usb_pc # "idle" => usb_queued + usb_timer = 0
    /\ hid_queued <= Capacity
    /\ usb_queued + usb_timer <= Capacity

\* usb_task has spawned hid_task while the hid_task instance spawned by
\* its run before is still at work, and run_display is in its scroll
C20_Witness ==
    /\ Running
    /\ usb_pc = "rearm"
    /\ hid_queued = 1
    /\ hid_pc = "build"
    /\ phase = "scroll"

\* what run_display works on: the display and the place in its animations
DisplayState == <<displayVars, busVars, taskVars>>

\* a step of run_display itself: the expiry of its timer is not one
RunDisplayStep == DisplayState' # DisplayState /\ phase # "armed"

\* C16: a usb_task instance waiting to be started is started at once
\* unless hid_task holds the lock, and a hid_task instance unless usb_task
\* or hid_task is at work, whatever run_display is doing; run_display
\* takes a step only when neither usb_task nor hid_task is at work or
\* waits to be started; and a step of usb_task or of hid_task leaves the
\* framebuffer, the devices and the place of run_display in its animation
\* as they are.
C16_Preemption ==
    /\ []((Running /\ usb_queued > 0 /\ ~HidInside) => UsbDispatchable)
    /\ []((Running /\ hid_queued > 0 /\ usb_pc = "idle" /\ hid_pc = "idle"
              /\ usb_queued = 0) => HidDispatchable)
    /\ [][/\ RunDisplayStep => HighIdle
          /\ (schedVars' # schedVars /\ phase # "armed") =>
                DisplayState' = DisplayState]_vars

\* usb_task is inside its closure after run_display drew the third frame
\* of its scroll and before it flushed it
C16_Witness ==
    /\ Running
    /\ usb_pc = "locked"
    /\ phase = "scroll"
    /\ loop_i = 2
    /\ next_call = "flush"

\* C17: a flush made by run_display after initialisation, whether or not a
\* bus operation of it fails, leaves the system running and the display
\* task on its way to its next tick.
C17_BusErrorsNotFatal ==
    [][(passes > 0 /\ next_call = "flush" /\ call'.op = "flush") =>
        (Running' /\ phase' # "halt")]_vars

(***************************************************************************)
(* run_display while keys are pressed and released: the keypads queue the  *)
(* edges; main.rs has no call of process_events.                           *)
(***************************************************************************)
InitTick ==
    /\ call = NewCall
    /\ NewDisplay
    /\ NewKeypad
    /\ NewSched
    /\ NewLights(1)
    /\ NewTask(<<"H", "i", " ", "T", "h", "e", "r", "e", "!", "!">>)

NextTick ==
    \/ KeyEdge
    \/ RunDisplay
    \/ FrameClear
    \/ FrameDraw
    \/ FlushPanics
    \/ FadeFlush
    \/ ScrollFlush
    \/ Rearm

SpecTick == InitTick /\ [][NextTick]_vars

\* run_display returns in this step
TickEnds == phase = "rearm" /\ phase' = "pending"

\* C18: when a tick of run_display ends, the four devices have been polled
\* for key events, in order, and no edge queued by a keypad is left
\* unread on a device that was polled.
C18_TickPollsDevices ==
    [][TickEnds =>
        /\ Polled(keylog) = <<0, 1, 2, 3>>
        /\ \A d \in 0..(NumDevices - 1) : events[d] = << >>]_vars

\* the usb_task instances there are: waiting for the timer, waiting to
\* start, or started
UsbInstances == usb_timer + usb_queued + (IF usb_pc = "idle" THEN 0 ELSE 1)

\* C15: a usb_task run that returns has put exactly one usb_task instance
\* in the timer queue and a run_display run that returns has armed its next
\* run; instances come from nowhere else (usb_task's from its timer,
\* hid_task's from usb_task's poll, run_display's from its timer); and an
\* execution in which nothing panics starts usb_task and run_display again
\* and again, usb_task having one instance at all times.
C15_PeriodicRearm ==
    /\ [][/\ (usb_pc # "idle" /\ usb_pc' = "idle") =>
                (usb_timer' = usb_timer + 1 /\ usb_queued' = usb_queued)
          /\ usb_timer' > usb_timer => (usb_pc = "rearm" /\ usb_pc' = "idle")
          /\ usb_queued' > usb_queued => usb_timer' = usb_timer - 1
          /\ hid_queued' > hid_queued => (usb_pc = "locked" /\ usb_pc' = "rearm")
          /\ (phase = "rearm" /\ phase' # "rearm") => phase' = "armed"
          /\ (phase # "pending" /\ phase' = "pending") => phase = "armed"
          /\ Running' => UsbInstances' = 1]_vars
    /\ \/ <>(~Running)
       \/ /\ []<>(usb_pc = "lock")
          /\ []<>(phase = "fade")

\* run_display has returned and waits for its timer while usb_task, started
\* again, is about to re-arm
C15_Witness ==
    /\ Running
    /\ phase = "armed"
    /\ usb_pc = "rearm"
    /\ Len(offsets) = 50

=============================================================================
